---- MODULE Spec2Model ----
(***************************************************************************)
(* The Offload Dispatcher of src/lib/workerUtils.ts, the Embedding Store   *)
(* of src/lib/embeddings.ts and the two copies of the Similarity Engine    *)
(* and the Projector (worker script, in-process fallback) as state         *)
(* machines.  Each has a specification of its own: Spec / FairSpec /       *)
(* ErrorSpec for the dispatcher, StoreSpec for the store, EngineSpec for   *)
(* the engine and the projector.                                           *)
(*                                                                         *)
(* JavaScript runs every macrotask (an exported call, a timer callback, a  *)
(* message event) to completion, and drains the microtasks it queued       *)
(* (await continuations, .then callbacks) before the next macrotask.  One  *)
(* action below is one macrotask together with its microtasks.  The worker *)
(* is a second process that talks to the main thread over two FIFO         *)
(* channels.                                                               *)
(*                                                                         *)
(* The module-level lets of workerUtils.ts are the variables               *)
(* embeddingsWorker, workerReady and pendingMessages.  Every invocation of *)
(* sendWorkerMessage / initEmbeddingsWorker is a record of `calls` holding *)
(* what its closure holds: its promise, its timers and where it is         *)
(* suspended.                                                              *)
(***************************************************************************)
EXTENDS Integers, Sequences, FiniteSets, TLC

VARIABLES
    isDev,              \* process.env.NODE_ENV === 'development'
    env,                \* what the runtime offers: "ssr", "noworker", "browser"
    embeddingsWorker,   \* FALSE: null, TRUE: the Worker object
    workerReady,
    pendingMessages,    \* sequence of [type, cb, call]
    calls,              \* one record per invocation, in invocation order
    creator,            \* the call whose closure embeddingsWorker.onmessage holds
    posted,             \* every message posted to the worker, in order
    workerNext,         \* index in posted of the next message the worker handles;
                        \* 0 while the worker script has not started
    fromWorker,         \* messages the worker posted, not yet delivered
    createWorkerCalls,  \* number of createWorker() invocations so far
    observing,          \* whether this behaviour records worker errors
    errored,            \* recorded: the calls with a pending promise that were
                        \* pending when the worker reported an error
                        \* (WORKER_ERROR taken, or onerror)
    embeddingsCache,    \* src/lib/embeddings.ts: null, or the effective table
    pendingEmbeddings,  \* normalized word -> the getWordEmbedding call whose
                        \* fetchWordEmbedding promise is stored under it
    isInitializing,
    inits,              \* one record per initializeEmbeddings invocation
    lookups,            \* one record per getWordEmbedding invocation
    fetchCalls,         \* number of fetchAdditionalEmbeddings() invocations so far
    timers,             \* the armed setTimeout timers of embeddings.ts, in the
                        \* order they were armed: [ms, call]
    request,            \* the type and payload of one request to the engine
    fallbackAnswer,     \* what the in-process fallback computes for it
    workerAnswer,       \* what the worker script computes for it
    directAnswer        \* what the main thread's own copies compute for it

\* The state of the Embedding Store (src/lib/embeddings.ts).
storeVars == <<embeddingsCache, pendingEmbeddings, isInitializing, inits,
               lookups, fetchCalls, timers>>

\* One request and its two answers.
engineVars == <<request, fallbackAnswer, workerAnswer, directAnswer>>

\* What the dispatcher's handlers never touch.
restVars == <<storeVars, engineVars>>

\* The state of the Offload Dispatcher (src/lib/workerUtils.ts).
workerVars == <<isDev, env, embeddingsWorker, workerReady, pendingMessages,
                calls, creator, posted, workerNext, fromWorker,
                createWorkerCalls, observing, errored>>

vars == <<workerVars, restVars>>

\* Total number of invocations (exported calls and re-dispatched ones).
MaxCalls == 4

\* The two operation kinds the callers of this repository dispatch.
Kinds == {"FIND_SIMILAR_WORDS", "BATCH_PROJECT_TO_2D"}

Envs == {"ssr", "noworker", "browser"}

NoValue == [via |-> "none", type |-> "none", payload |-> 0]

\* What resolve(null) passes.
NullValue == [via |-> "null", type |-> "none", payload |-> 0]

\* { similarWords: findSimilarWordsFallback(...) } / { points: projectEmbeddingsFallback(...) }
FallbackResult(type, payload) ==
    [via |-> "fallback", type |-> type, payload |-> payload]

\* The payload of the worker's SIMILAR_WORDS_RESULT / PROJECTION_RESULT message.
WorkerResult(type, payload) ==
    [via |-> "worker", type |-> type, payload |-> payload]

Resolved(v) == [status |-> "resolved", value |-> v]
Rejected == [status |-> "rejected", value |-> NoValue]

\* A timeout callback that lacks the BATCH_PROJECT_TO_2D branch.
TimeoutOutcomeNoProjection(type, payload) ==
    IF type = "FIND_SIMILAR_WORDS" THEN Resolved(FallbackResult(type, payload))
    ELSE Rejected

\* The body of the setTimeout callback of sendWorkerMessage.
TimeoutOutcome(type, payload) ==
    IF type = "FIND_SIMILAR_WORDS" THEN Resolved(FallbackResult(type, payload))
    ELSE IF type = "BATCH_PROJECT_TO_2D" THEN Resolved(FallbackResult(type, payload))
    ELSE Rejected

\* A catch block that passes the error on to the caller.
CatchOutcomeRejects(type, payload) == Rejected

\* The catch block of sendWorkerMessage.
CatchOutcome(type, payload) ==
    IF type = "FIND_SIMILAR_WORDS" THEN Resolved(FallbackResult(type, payload))
    ELSE IF type = "BATCH_PROJECT_TO_2D" THEN Resolved(FallbackResult(type, payload))
    ELSE Rejected

\* type.replace(/^(\w+)$/, '$1_RESULT')
ResponseType(type) ==
    CASE type = "FIND_SIMILAR_WORDS" -> "FIND_SIMILAR_WORDS_RESULT"
      [] type = "BATCH_PROJECT_TO_2D" -> "BATCH_PROJECT_TO_2D_RESULT"
      [] type = "INIT" -> "INIT_RESULT"
      [] OTHER -> "UNKNOWN_RESULT"

\* The tag the worker's onmessage gives its answer to a request of this type.
WorkerResponseType(type) ==
    CASE type = "FIND_SIMILAR_WORDS" -> "SIMILAR_WORDS_RESULT"
      [] type = "BATCH_PROJECT_TO_2D" -> "PROJECTION_RESULT"
      [] OTHER -> "NONE"

\* clearTimeout: cancels an armed timer, does nothing to one that has fired.
ClearTimer(t) == IF t = "armed" THEN "cleared" ELSE t

\* createWorker(): TRUE for a Worker, FALSE for null.  It returns null when
\* window, Worker or Blob URLs are missing or the constructor throws, which
\* is a property of the runtime ("noworker"), and the worker in a browser.
createWorker(e) == e = "browser"

\* The mutable state as one record, so that nested calls compose.
Cur ==
    [embeddingsWorker |-> embeddingsWorker, workerReady |-> workerReady,
     pendingMessages |-> pendingMessages, calls |-> calls, creator |-> creator,
     posted |-> posted, fromWorker |-> fromWorker,
     createWorkerCalls |-> createWorkerCalls]

Set(st) ==
    /\ embeddingsWorker' = st.embeddingsWorker
    /\ workerReady' = st.workerReady
    /\ pendingMessages' = st.pendingMessages
    /\ calls' = st.calls
    /\ creator' = st.creator
    /\ posted' = st.posted
    /\ fromWorker' = st.fromWorker
    /\ createWorkerCalls' = st.createWorkerCalls

\* resolve / reject of the promise of call i; a settled promise stays as it is.
\* A re-dispatched call hands its outcome on: .then(resolve).catch(reject).
SettleAt(cs, i, o) ==
    LET c == cs[i]
        cs1 == [cs EXCEPT ![i].promise = o.status, ![i].value = o.value]
        p == c.parent
    IN  IF c.promise # "pending" THEN cs
        ELSE IF p # 0 /\ cs1[p].promise = "pending"
             THEN [cs1 EXCEPT ![p].promise = o.status, ![p].value = o.value]
             ELSE cs1

(***************************************************************************)
(* The Embedding Store of src/lib/embeddings.ts: values                    *)
(*                                                                         *)
(* A word is the sequence of its characters.  A component of a vector is   *)
(* kept as the expression the code evaluates: a literal of a table, in     *)
(* hundredths, or one of the trigonometric terms of fetchWordEmbedding     *)
(* over the seed of the word.  The seed is a non-zero rational for every   *)
(* non-empty word, so no trigonometric term equals a literal and two terms *)
(* are equal only when they are the same expression or the seeds differ by *)
(* a period, which no pair of rationals does.                              *)
(***************************************************************************)

\* Number of getWordEmbedding invocations.
MaxLookups == 3

\* Number of initializeEmbeddings invocations.
MaxInits == 2

W_the == <<"t", "h", "e">>
W_The == <<"T", "h", "e">>
W_hat == <<"h", "a", "t">>
W_wellness == <<"w", "e", "l", "l", "n", "e", "s", "s">>
W_zq == <<"z", "q">>
W_empty == <<>>
W_blank == <<" ">>

\* The arguments getWordEmbedding is called with: a key of the static table
\* only, its capitalised form (a static key of its own), a key of the
\* supplemental table only, a key of both tables, a word of neither table,
\* the empty string and a whitespace-only string.
InputWords == {W_the, W_The, W_hat, W_wellness, W_zq, W_empty, W_blank}

\* A literal of a table; v is the value in hundredths.
Lit(v) == [f |-> "lit", k |-> 0, seed |-> 0, scale |-> v]

\* scale/100 * f(k * seed/100), f one of sin, cos, sin+cos.
Trig(f, k, seed, scale) == [f |-> f, k |-> k, seed |-> seed, scale |-> scale]

\* The rows of getStaticWordEmbeddings() for the words of InputWords.
getStaticWordEmbeddings ==
    (W_the :> <<Lit(0), Lit(0), Lit(0), Lit(0), Lit(0)>>)
    @@ (W_The :> <<Lit(0), Lit(0), Lit(0), Lit(0), Lit(10)>>)
    @@ (W_wellness :> <<Lit(50), Lit(50), Lit(40), Lit(60), Lit(60)>>)

\* The rows of the table fetchAdditionalEmbeddings() resolves with, for the
\* words of InputWords.
fetchAdditionalEmbeddings ==
    (W_wellness :> <<Lit(35), Lit(45), Lit(25), Lit(55), Lit(65)>>)
    @@ (W_hat :> <<Lit(43), Lit(53), Lit(63), Lit(33), Lit(43)>>)

\* String.prototype.toLowerCase on one character.
ToLowerCase(c) ==
    CASE c = "T" -> "t"
      [] OTHER -> c

\* String.prototype.charCodeAt(0) of a one-character string.
CharCode(c) ==
    CASE c = " " -> 32
      [] c = "T" -> 84
      [] c = "a" -> 97
      [] c = "e" -> 101
      [] c = "h" -> 104
      [] c = "l" -> 108
      [] c = "n" -> 110
      [] c = "q" -> 113
      [] c = "s" -> 115
      [] c = "t" -> 116
      [] c = "w" -> 119
      [] c = "z" -> 122

RECURSIVE TrimStart(_)
TrimStart(w) ==
    IF w # <<>> /\ Head(w) = " " THEN TrimStart(Tail(w)) ELSE w

RECURSIVE TrimEnd(_)
TrimEnd(w) ==
    IF w # <<>> /\ w[Len(w)] = " " THEN TrimEnd(SubSeq(w, 1, Len(w) - 1)) ELSE w

\* word.toLowerCase().trim()
Normalize(word) ==
    TrimEnd(TrimStart([k \in 1..Len(word) |-> ToLowerCase(word[k])]))

\* word.split('').reduce((acc, char) => acc + char.charCodeAt(0), 0); the
\* division by 100 is kept in the unit: the seed is in hundredths.
RECURSIVE Seed(_)
Seed(word) ==
    IF word = <<>> THEN 0 ELSE CharCode(Head(word)) + Seed(Tail(word))

\* A number[] | null value.
NullEmbedding == [found |-> FALSE, vec |-> <<>>]
Found(v) == [found |-> TRUE, vec |-> v]

\* The five components fetchWordEmbedding computes from a seed.
Synthesized(seed) ==
    <<Trig("sin", 1, seed, 50), Trig("cos", 1, seed, 50),
      Trig("sin", 2, seed, 40), Trig("cos", 2, seed, 40),
      Trig("sin+cos", 3, seed, 30)>>

\* A fetchWordEmbedding whose seed also counts the calls made so far.
fetchWordEmbeddingPerCall(word) ==
    IF Len(word) > 0 THEN Found(Synthesized(Seed(word) + Len(lookups)))
    ELSE NullEmbedding

\* A fetchWordEmbedding without the word.length > 0 test.
fetchWordEmbeddingAnyLength(word) == Found(Synthesized(Seed(word)))

\* What the promise of fetchWordEmbedding(word) resolves with.
fetchWordEmbedding(word) ==
    IF Len(word) > 0 THEN Found(Synthesized(Seed(word))) ELSE NullEmbedding

\* embeddingsCache: null, or an object from words to vectors.
NullCache == [set |-> FALSE, entries |-> <<>>]
Table(t) == [set |-> TRUE, entries |-> t]

\* obj[w] = v
Put(t, w, v) == [x \in DOMAIN t \cup {w} |-> IF x = w THEN v ELSE t[x]]

\* delete obj[w]
Delete(t, w) == [x \in DOMAIN t \ {w} |-> t[x]]

\* { ...a, ...b }
Spread(a, b) ==
    [x \in DOMAIN a \cup DOMAIN b |-> IF x \in DOMAIN b THEN b[x] ELSE a[x]]

\* The module-level lets of embeddings.ts as the module is loaded.
StoreStart ==
    /\ embeddingsCache = NullCache
    /\ pendingEmbeddings = <<>>
    /\ isInitializing = FALSE
    /\ inits = <<>>
    /\ lookups = <<>>
    /\ fetchCalls = 0
    /\ timers = <<>>

(***************************************************************************)
(* The Similarity Engine and the Projector: values                         *)
(*                                                                         *)
(* A vector is a sequence of integers.  A similarity dot/sqrt(sq) is kept  *)
(* as the pair of its integers and compared exactly; the code's rounding   *)
(* of doubles is not modelled.  An embeddings object is the sequence of    *)
(* its entries in Object.entries order.                                    *)
(***************************************************************************)

\* Number of entries of the embeddings object of a request.
MaxWords == 3

\* The key of the i-th entry.
Keys == <<"a", "b", "c", "d", "e">>

\* Vectors of similarity requests: parallel, orthogonal, opposite and
\* diagonal directions, the zero vector and a vector of another length.
SimVectors == {<<1, 0>>, <<2, 0>>, <<0, 1>>, <<-1, 0>>, <<1, 1>>, <<0, 0>>, <<1, 0, 0>>}

\* Query vectors.
QueryVectors == {<<1, 0>>, <<1, 1>>, <<0, 0>>}

\* Vectors and query vectors of the requests with an empty vector: the empty
\* vector, a zero vector and a vector none of this applies to.
EdgeVectors == {<<>>, <<0, 0>>, <<1, 0>>}
EdgeQueryVectors == {<<>>, <<1, 0>>}

\* Query words: the key of the first entry, and a word that is no key.
QueryWords == {"a", "q"}

Limits == {0, 1, 2, 10}

\* Thresholds as fractions num/den: -1, 0, 0.5 (the default) and 1.
Thresholds ==
    {[num |-> -1, den |-> 1], [num |-> 0, den |-> 1],
     [num |-> 1, den |-> 2], [num |-> 1, den |-> 1]}

\* Vectors of projection requests, of every length from 0 to 5.
ProjVectors ==
    {<<>>, <<1>>, <<1, 2>>, <<1, 2, 0>>, <<2, 2, 1, 1>>, <<0, 0, 0, 0, 0>>,
     <<1, 1, 1, 1, 1>>, <<1, 0, 2, -1, 0>>}

\* Rows of getStaticWordEmbeddings() in tenths; a cosine does not change when
\* both vectors are scaled.
Row_dog == <<7, 3, 2, 5, 4>>
Row_cat == <<6, 3, 2, 5, -3>>
Row_car == <<4, 5, 1, 3, 1>>

\* The table of the rows of dog, cat and car, in the order of the static
\* table.
ExampleTable ==
    <<[key |-> "dog", vector |-> Row_dog], [key |-> "cat", vector |-> Row_cat],
      [key |-> "car", vector |-> Row_car]>>

\* A vector of literals that are whole tenths, as integers in tenths.
Tenths(vec) == [k \in 1..Len(vec) |-> vec[k].scale \div 10]

\* getStaticWordEmbeddings() as the embeddings view passes it on: the rows of
\* the, The, dog, cat, car and wellness, in the order of the table.
StaticRows ==
    <<[key |-> "the", vector |-> Tenths(getStaticWordEmbeddings[W_the])],
      [key |-> "The", vector |-> Tenths(getStaticWordEmbeddings[W_The])],
      [key |-> "dog", vector |-> Row_dog], [key |-> "cat", vector |-> Row_cat],
      [key |-> "car", vector |-> Row_car],
      [key |-> "wellness", vector |-> Tenths(getStaticWordEmbeddings[W_wellness])]>>

\* The words the embeddings view lowers its threshold for.
TheWords == {"the", "The"}

\* word.toLowerCase() === "the" ? 0.05 : 0.3
ViewThreshold(word) ==
    IF word \in TheWords THEN [num |-> 1, den |-> 20] ELSE [num |-> 3, den |-> 10]

\* The cache as initializeEmbeddings seeds it, for the static words of
\* InputWords, in tenths.
SeededCache ==
    <<[key |-> W_the, vector |-> Tenths(getStaticWordEmbeddings[W_the])],
      [key |-> W_The, vector |-> Tenths(getStaticWordEmbeddings[W_The])],
      [key |-> W_wellness,
       vector |-> Tenths(getStaticWordEmbeddings[W_wellness])]>>

\* The words findSimilarWords of lib/embeddings is called with: cached words
\* as they are, capitalised or with a leading or trailing blank, the empty
\* string and a blank.  (The cosines of a synthesized vector are not
\* computed, so a word that is not cached is not among them.)
SimilarWordsInputs ==
    {W_the, W_The, W_wellness, <<" ">> \o W_wellness, W_the \o <<" ">>,
     W_empty, W_blank}

\* The embeddings objects with at most MaxWords entries over the vectors V.
Tables(V) ==
    UNION {[1..n -> V] : n \in 0..MaxWords}

Entries(vs) == [i \in 1..Len(vs) |-> [key |-> Keys[i], vector |-> vs[i]]]

NoRequest ==
    [type |-> "NONE", embeddings |-> <<>>, wordEmbedding |-> <<>>, word |-> "",
     limit |-> 0, threshold |-> [num |-> 0, den |-> 1]]

\* Nothing computed yet.
NoAnswer == [done |-> FALSE, similarWords |-> <<>>, points |-> <<>>]

\* { similarWords }
SimilarWordsAnswer(l) == [done |-> TRUE, similarWords |-> l, points |-> <<>>]

\* { points }
PointsAnswer(p) == [done |-> TRUE, similarWords |-> <<>>, points |-> p]

\* No request has been made.
EngineStart ==
    /\ request = NoRequest
    /\ fallbackAnswer = NoAnswer
    /\ workerAnswer = NoAnswer
    /\ directAnswer = NoAnswer

\* The module-level lets of workerUtils.ts as the module is loaded, with no
\* call made and no worker running.
DispatcherStart ==
    /\ embeddingsWorker = FALSE
    /\ workerReady = FALSE
    /\ pendingMessages = <<>>
    /\ calls = <<>>
    /\ creator = 0
    /\ posted = <<>>
    /\ workerNext = 0
    /\ fromWorker = <<>>
    /\ createWorkerCalls = 0
    /\ errored = {}

Init ==
    /\ isDev \in BOOLEAN
    /\ env \in Envs
    /\ observing = FALSE
    /\ DispatcherStart
    /\ StoreStart
    /\ EngineStart

\* What a new invocation's closure holds before its first statement runs.
NewCall(op, type, payload, parent) ==
    [op |-> op, type |-> type, payload |-> payload, parent |-> parent,
     pc |-> "start", timer |-> "none", initTimer |-> "none",
     initPromise |-> "none", promise |-> "none", value |-> NoValue]

\* initEmbeddingsWorker(), run by call id.
InitEmbeddingsWorkerCall(st, id) ==
    IF env = "ssr"
    THEN [st EXCEPT !.calls[id].initTimer = "cleared",
                    !.calls[id].initPromise = "rejected"]
    ELSE IF st.embeddingsWorker
    THEN IF st.workerReady
         THEN [st EXCEPT !.calls[id].initTimer = "cleared",
                         !.calls[id].initPromise = "resolved"]
         ELSE [st EXCEPT !.calls[id].initTimer = "armed",
                         !.calls[id].initPromise = "pending",
                         !.pendingMessages =
                             Append(@, [type |-> "INIT", cb |-> "init", call |-> id])]
    ELSE IF ~createWorker(env)
    THEN [st EXCEPT !.createWorkerCalls = @ + 1,
                    !.calls[id].initTimer = "cleared",
                    !.calls[id].initPromise = "rejected"]
    ELSE [st EXCEPT !.createWorkerCalls = @ + 1,
                    !.embeddingsWorker = TRUE,
                    !.creator = id,
                    !.posted = Append(@, [type |-> "INIT", payload |-> 0, req |-> id]),
                    !.calls[id].initTimer = "armed",
                    !.calls[id].initPromise = "pending"]

\* The catch block of sendWorkerMessage, reached by a throw inside its try.
CatchFallback(st, id) ==
    LET c == st.calls[id]
    IN  [st EXCEPT !.calls =
            SettleAt([@ EXCEPT ![id].timer = ClearTimer(@), ![id].pc = "done"],
                     id, CatchOutcome(c.type, c.payload))]

\* A dispatcher that never waits for readiness.
MustQueueNever(st) == FALSE

\* if (!workerReady): the request waits in pendingMessages.
MustQueue(st) == ~st.workerReady

\* The tail of sendWorkerMessage, after the initialization block: queue the
\* request, or record the response handler and post the request.
Dispatch(st, id) ==
    LET c == st.calls[id]
    IN  IF ~st.embeddingsWorker THEN CatchFallback(st, id)
        ELSE IF MustQueue(st)
        THEN [st EXCEPT !.calls[id].pc = "queued",
                        !.pendingMessages =
                            Append(@, [type |-> c.type, cb |-> "queued", call |-> id])]
        ELSE [st EXCEPT !.calls[id].pc = "sent",
                        !.pendingMessages =
                            Append(@, [type |-> ResponseType(c.type),
                                       cb |-> "response", call |-> id]),
                        !.posted =
                            Append(@, [type |-> c.type, payload |-> c.payload,
                                       req |-> id])]

\* sendWorkerMessage(type, payload) up to its first suspension.  parent is the
\* queued call whose resolve closure makes this call, 0 for an exported call.
SendWorkerMessageCall(st, type, payload, parent) ==
    LET id == Len(st.calls) + 1
        c0 == [NewCall("send", type, payload, parent) EXCEPT
                  !.timer = "armed", !.promise = "pending"]
        st0 == [st EXCEPT !.calls = Append(@, c0)]
    IN  IF isDev THEN CatchFallback(st0, id)
        ELSE IF ~st0.embeddingsWorker
        THEN LET st1 == InitEmbeddingsWorkerCall(st0, id)
             IN  IF st1.calls[id].initPromise = "rejected"
                 THEN CatchFallback(st1, id)
                 ELSE [st1 EXCEPT !.calls[id].pc = "awaitInit"]
        ELSE Dispatch(st0, id)

\* One call of the resolve closure of a pendingMessages entry.
InvokeResolve(e, st, arg) ==
    CASE e.cb = "init" ->
            [st EXCEPT !.calls[e.call].initTimer = ClearTimer(@),
                       !.calls[e.call].initPromise =
                           IF @ = "pending" THEN "resolved" ELSE @]
      [] e.cb = "queued" ->
            LET c == st.calls[e.call]
                st1 == [st EXCEPT !.calls[e.call].timer = ClearTimer(@)]
            IN  SendWorkerMessageCall(st1, c.type, c.payload, e.call)
      [] OTHER ->
            [st EXCEPT !.calls =
                SettleAt([@ EXCEPT ![e.call].timer = ClearTimer(@)],
                         e.call, Resolved(arg))]

\* entries.forEach(({ resolve }) => resolve(arg)): forEach visits the entries
\* the array held when it started.
RECURSIVE ForEachResolve(_, _, _)
ForEachResolve(entries, st, arg) ==
    IF entries = <<>> THEN st
    ELSE ForEachResolve(Tail(entries), InvokeResolve(Head(entries), st, arg), arg)

IsInitEntry(m) == m.type = "INIT"
NotInitEntry(m) == m.type # "INIT"

processPendingMessages(st) ==
    IF ~st.embeddingsWorker \/ ~st.workerReady THEN st
    ELSE LET initMessages == SelectSeq(st.pendingMessages, IsInitEntry)
             st1 == ForEachResolve(initMessages, st, NoValue)
             st2 == [st1 EXCEPT !.pendingMessages = SelectSeq(@, NotInitEntry)]
             st3 == ForEachResolve(st2.pendingMessages, st2, NullValue)
         IN  [st3 EXCEPT !.pendingMessages = <<>>]

\* The WORKER_READY branch of embeddingsWorker.onmessage, then the
\* continuation of the call that awaits initEmbeddingsWorker().
OnWorkerReady(st) ==
    LET k == st.creator
        resumed == st.calls[k].op = "send" /\ st.calls[k].initPromise = "pending"
        st1 == [st EXCEPT !.workerReady = TRUE,
                          !.calls[k].initTimer = ClearTimer(@),
                          !.calls[k].initPromise =
                              IF @ = "pending" THEN "resolved" ELSE @]
        st2 == processPendingMessages(st1)
    IN  IF resumed THEN Dispatch(st2, k) ELSE st2

\* pendingMessages.findIndex(msg => msg.type === type); 0 stands for -1.
FindIndex(pm, type) ==
    IF \E i \in 1..Len(pm) : pm[i].type = type
    THEN CHOOSE i \in 1..Len(pm) :
            /\ pm[i].type = type
            /\ \A j \in 1..(i - 1) : pm[j].type # type
    ELSE 0

\* pendingMessages.splice(index, 1)
Splice(pm, index) ==
    [j \in 1..(Len(pm) - 1) |-> IF j < index THEN pm[j] ELSE pm[j + 1]]

handleWorkerMessage(st, m) ==
    LET messageIndex == FindIndex(st.pendingMessages, m.type)
    IN  IF messageIndex = 0 THEN st
        ELSE LET st1 == InvokeResolve(st.pendingMessages[messageIndex], st, m.payload)
             IN  [st1 EXCEPT !.pendingMessages = Splice(@, messageIndex)]

\* Entries whose resolve closure re-dispatches: each makes one more call.
NumQueued ==
    Cardinality({i \in 1..Len(pendingMessages) : pendingMessages[i].cb = "queued"})

\* setTimeout callbacks run in deadline order: a timer fires only when no
\* timer with an earlier deadline is still armed.  Calls are numbered in
\* invocation order; a call's 2 s timer is armed in the same task as its 5 s.
InitTimerDue(i) ==
    \A j \in 1..(i - 1) : calls[j].initTimer # "armed"

MessageTimerDue(i) ==
    /\ \A j \in 1..i : calls[j].initTimer # "armed"
    /\ \A j \in 1..(i - 1) : calls[j].timer # "armed"

(***************************************************************************)
(* Actions                                                                 *)
(***************************************************************************)

\* An exported call sendWorkerMessage(type, payload).  The payload is opaque
\* to the dispatcher; it is named by the number of the call that brought it.
\* The calls whose promise is pending.
PendingCalls == {i \in 1..Len(calls) : calls[i].promise = "pending"}

\* What a handler adds to the record of worker errors: the calls of E, to
\* which the worker reported an error in this step (none if the handler is
\* no error handler); a call leaves the record once it has settled.
Observe(E) ==
    /\ observing' = observing
    /\ errored' = IF observing THEN (errored \cup E) \cap PendingCalls' ELSE errored

SendWorkerMessage ==
    /\ Len(calls) + NumQueued
         + (IF ~isDev /\ embeddingsWorker /\ ~workerReady THEN 2 ELSE 1) <= MaxCalls
    /\ \E type \in Kinds :
          Set(SendWorkerMessageCall(Cur, type, Len(calls) + 1, 0))
    /\ UNCHANGED <<isDev, env, workerNext>>
    /\ Observe({})
    /\ UNCHANGED restVars

\* An exported call initEmbeddingsWorker().
InitEmbeddingsWorker ==
    /\ Len(calls) + NumQueued + 1 <= MaxCalls
    /\ LET id == Len(calls) + 1
           st0 == [Cur EXCEPT !.calls = Append(@, NewCall("init", "INIT", 0, 0))]
       IN  Set(InitEmbeddingsWorkerCall(st0, id))
    /\ UNCHANGED <<isDev, env, workerNext>>
    /\ Observe({})
    /\ UNCHANGED restVars

\* The 2 s timer of the initEmbeddingsWorker promise of call i fires.
InitTimeout(i) ==
    /\ i \in 1..Len(calls)
    /\ calls[i].initTimer = "armed"
    /\ InitTimerDue(i)
    /\ LET waiting == calls[i].op = "send" /\ calls[i].initPromise = "pending"
           st1 == [Cur EXCEPT !.calls[i].initTimer = "fired",
                              !.calls[i].initPromise =
                                  IF @ = "pending" THEN "rejected" ELSE @]
       IN  Set(IF waiting THEN CatchFallback(st1, i) ELSE st1)
    /\ UNCHANGED <<isDev, env, workerNext>>
    /\ Observe({})
    /\ UNCHANGED restVars

\* The 5 s timer of sendWorkerMessage call i fires.
MessageTimeout(i) ==
    /\ i \in 1..Len(calls)
    /\ calls[i].timer = "armed"
    /\ MessageTimerDue(i)
    /\ calls' = SettleAt([calls EXCEPT ![i].timer = "fired"], i,
                         TimeoutOutcome(calls[i].type, calls[i].payload))
    /\ UNCHANGED <<isDev, env, embeddingsWorker, workerReady, pendingMessages,
                   creator, posted, workerNext, fromWorker, createWorkerCalls>>
    /\ Observe({})
    /\ UNCHANGED restVars

\* The worker script starts: its first statement posts WORKER_INITIALIZING.
WorkerStart ==
    /\ embeddingsWorker
    /\ workerNext = 0
    /\ workerNext' = 1
    /\ fromWorker' = Append(fromWorker,
                            [type |-> "WORKER_INITIALIZING", payload |-> NoValue, req |-> 0])
    /\ UNCHANGED <<isDev, env, embeddingsWorker, workerReady, pendingMessages,
                   calls, creator, posted, createWorkerCalls>>
    /\ Observe({})
    /\ UNCHANGED restVars

\* self.onmessage in the worker handles one message; `ok` is FALSE when the
\* handler throws and its catch posts WORKER_ERROR.
WorkerOnMessage ==
    /\ workerNext \in 1..Len(posted)
    /\ LET m == posted[workerNext]
       IN  \E ok \in BOOLEAN :
             fromWorker' =
                IF m.type = "INIT"
                THEN Append(fromWorker,
                            [type |-> "WORKER_READY", payload |-> NoValue, req |-> m.req])
                ELSE IF ~ok
                THEN Append(fromWorker,
                            [type |-> "WORKER_ERROR", payload |-> NoValue, req |-> m.req])
                ELSE IF WorkerResponseType(m.type) # "NONE"
                THEN Append(fromWorker,
                            [type |-> WorkerResponseType(m.type),
                             payload |-> WorkerResult(m.type, m.payload),
                             req |-> m.req])
                ELSE fromWorker
    /\ workerNext' = workerNext + 1
    /\ UNCHANGED <<isDev, env, embeddingsWorker, workerReady, pendingMessages,
                   calls, creator, posted, createWorkerCalls>>
    /\ Observe({})
    /\ UNCHANGED restVars

\* embeddingsWorker.onmessage on the main thread takes the next message.
OnMessage ==
    /\ fromWorker # <<>>
    /\ LET m == Head(fromWorker)
           st0 == [Cur EXCEPT !.fromWorker = Tail(@)]
       IN  Set(IF m.type = "WORKER_READY"
               THEN OnWorkerReady(st0)
               ELSE handleWorkerMessage(st0, m))
    /\ UNCHANGED <<isDev, env, workerNext>>
    /\ Observe(IF Head(fromWorker).type = "WORKER_ERROR" THEN PendingCalls ELSE {})
    /\ UNCHANGED restVars

\* embeddingsWorker.onerror: an uncaught error in the worker.
OnError ==
    /\ embeddingsWorker
    /\ LET k == creator
           waiting == calls[k].op = "send" /\ calls[k].initPromise = "pending"
           st1 == [Cur EXCEPT !.calls[k].initTimer = ClearTimer(@),
                              !.calls[k].initPromise =
                                  IF @ = "pending" THEN "rejected" ELSE @]
       IN  Set(IF waiting THEN CatchFallback(st1, k) ELSE st1)
    /\ UNCHANGED <<isDev, env, workerNext>>
    /\ Observe(PendingCalls)
    /\ UNCHANGED restVars

Next ==
    \/ SendWorkerMessage
    \/ InitEmbeddingsWorker
    \/ \E i \in 1..MaxCalls : InitTimeout(i)
    \/ \E i \in 1..MaxCalls : MessageTimeout(i)
    \/ WorkerStart
    \/ WorkerOnMessage
    \/ OnMessage
    \/ OnError

Spec == Init /\ [][Next]_vars

\* Timers that are armed and due do fire; nothing is assumed of the worker.
FairSpec ==
    /\ Spec
    /\ \A i \in 1..MaxCalls : WF_vars(InitTimeout(i))
    /\ \A i \in 1..MaxCalls : WF_vars(MessageTimeout(i))

\* A production browser, the one runtime in which a request can be pending
\* while a worker exists, with the worker's error reports recorded.
ErrorInit ==
    /\ isDev = FALSE
    /\ env = "browser"
    /\ observing = TRUE
    /\ DispatcherStart
    /\ StoreStart
    /\ EngineStart

ErrorSpec ==
    /\ ErrorInit
    /\ [][Next]_vars
    /\ \A i \in 1..MaxCalls : WF_vars(InitTimeout(i))
    /\ \A i \in 1..MaxCalls : WF_vars(MessageTimeout(i))

TypeOK ==
    /\ isDev \in BOOLEAN
    /\ env \in Envs
    /\ embeddingsWorker \in BOOLEAN
    /\ workerReady \in BOOLEAN
    /\ Len(calls) <= MaxCalls
    /\ creator \in 0..Len(calls)
    /\ workerNext \in 0..(Len(posted) + 1)
    /\ createWorkerCalls \in 0..Len(calls)
    /\ \A i \in 1..Len(pendingMessages) :
          pendingMessages[i].call \in 1..Len(calls)
    /\ \A i \in 1..Len(calls) :
          /\ calls[i].timer \in {"none", "armed", "cleared", "fired"}
          /\ calls[i].initTimer \in {"none", "armed", "cleared", "fired"}
          /\ calls[i].promise \in {"none", "pending", "resolved", "rejected"}
          /\ calls[i].initPromise \in {"none", "pending", "resolved", "rejected"}

(***************************************************************************)
(* The Embedding Store: actions                                            *)
(*                                                                         *)
(* An action is one macrotask: an exported call up to its first suspended  *)
(* await, or a timer callback with every continuation it releases.         *)
(***************************************************************************)

\* setTimeout(resolve, ms) in call id.
SetTimeout(ms, id) == Append(timers, [ms |-> ms, call |-> id])

\* The position of the timer of call id among the armed timers, 0 if none.
TimerAt(ms, id) ==
    LET S == {k \in 1..Len(timers) : timers[k] = [ms |-> ms, call |-> id]}
    IN  IF S = {} THEN 0 ELSE CHOOSE k \in S : TRUE

\* A timer is due when no armed timer expires before it: none armed earlier
\* with a delay that is not longer.
TimerDue(k) ==
    \A j \in 1..(k - 1) : timers[j].ms > timers[k].ms

\* The armed timers once timer k has fired.
Fired(k) == [j \in 1..(Len(timers) - 1) |-> IF j < k THEN timers[j] ELSE timers[j + 1]]

\* embeddingsCache && normalizedWord in embeddingsCache
InCache(w) == embeddingsCache.set /\ w \in DOMAIN embeddingsCache.entries

\* A getWordEmbedding that never looks at pendingEmbeddings.
IsPendingNever(w) == FALSE

\* normalizedWord in pendingEmbeddings
IsPending(w) == w \in DOMAIN pendingEmbeddings

\* A guard of initializeEmbeddings that tests isInitializing alone.
AlreadyInitializingOnly == isInitializing

\* isInitializing || embeddingsCache
AlreadyInitializing == isInitializing \/ embeddingsCache.set

\* An exported call getWordEmbedding(word).
GetWordEmbedding ==
    /\ Len(lookups) < MaxLookups
    /\ \E word \in InputWords :
          LET id == Len(lookups) + 1
              normalizedWord == Normalize(word)
              open == {j \in 1..Len(lookups) :
                         lookups[j].pc # "done" /\ lookups[j].norm = normalizedWord}
              call(pc, via, owner, result) ==
                  [word |-> word, norm |-> normalizedWord, open |-> open,
                   pc |-> pc, via |-> via, owner |-> owner, result |-> result]
          IN  IF InCache(normalizedWord)
              THEN /\ lookups' = Append(lookups,
                          call("done", "cache", 0,
                               Found(embeddingsCache.entries[normalizedWord])))
                   /\ UNCHANGED <<pendingEmbeddings, timers>>
              ELSE IF IsPending(normalizedWord)
              THEN /\ lookups' = Append(lookups,
                          call("awaitPending", "pending",
                               pendingEmbeddings[normalizedWord], NullEmbedding))
                   /\ UNCHANGED <<pendingEmbeddings, timers>>
              ELSE /\ lookups' = Append(lookups,
                          call("awaitFetch", "synth", id, NullEmbedding))
                   /\ pendingEmbeddings' = Put(pendingEmbeddings, normalizedWord, id)
                   /\ timers' = SetTimeout(100, id)
    /\ UNCHANGED <<embeddingsCache, isInitializing, inits, fetchCalls>>
    /\ UNCHANGED <<workerVars, engineVars>>

\* The 100 ms timer of the fetchWordEmbedding of call i fires: the fetch
\* promise resolves, call i resumes after its await, and every call that
\* returned the same promise completes with its value.
FetchWordDone(i) ==
    /\ i \in 1..Len(lookups)
    /\ lookups[i].pc = "awaitFetch"
    /\ TimerDue(TimerAt(100, i))
    /\ timers' = Fired(TimerAt(100, i))
    /\ LET normalizedWord == lookups[i].norm
           embedding == fetchWordEmbedding(normalizedWord)
       IN  /\ embeddingsCache' =
                 IF embeddingsCache.set /\ embedding.found
                 THEN Table(Put(embeddingsCache.entries, normalizedWord,
                                embedding.vec))
                 ELSE embeddingsCache
           /\ pendingEmbeddings' = Delete(pendingEmbeddings, normalizedWord)
           /\ lookups' =
                 [j \in 1..Len(lookups) |->
                    IF j = i \/ (lookups[j].pc = "awaitPending" /\ lookups[j].owner = i)
                    THEN [lookups[j] EXCEPT !.pc = "done", !.result = embedding]
                    ELSE lookups[j]]
    /\ UNCHANGED <<isInitializing, inits, fetchCalls>>
    /\ UNCHANGED <<workerVars, engineVars>>

\* An exported call initializeEmbeddings().
InitializeEmbeddings ==
    /\ Len(inits) < MaxInits
    /\ IF AlreadyInitializing
       THEN /\ inits' = Append(inits, [pc |-> "returned"])
            /\ UNCHANGED <<embeddingsCache, isInitializing, fetchCalls, timers>>
       ELSE /\ isInitializing' = TRUE
            /\ embeddingsCache' = Table(getStaticWordEmbeddings)
            /\ fetchCalls' = fetchCalls + 1
            /\ inits' = Append(inits, [pc |-> "fetching"])
            /\ timers' = SetTimeout(300, Len(inits) + 1)
    /\ UNCHANGED <<pendingEmbeddings, lookups>>
    /\ UNCHANGED <<workerVars, engineVars>>

\* The 300 ms timer of the fetchAdditionalEmbeddings of call i fires: the
\* call resumes after its await, merges and runs its finally block.
FetchAdditionalDone(i) ==
    /\ i \in 1..Len(inits)
    /\ inits[i].pc = "fetching"
    /\ TimerDue(TimerAt(300, i))
    /\ timers' = Fired(TimerAt(300, i))
    /\ embeddingsCache' =
          Table(Spread(embeddingsCache.entries, fetchAdditionalEmbeddings))
    /\ isInitializing' = FALSE
    /\ inits' = [inits EXCEPT ![i].pc = "done"]
    /\ UNCHANGED <<pendingEmbeddings, lookups, fetchCalls>>
    /\ UNCHANGED <<workerVars, engineVars>>

StoreNext ==
    \/ GetWordEmbedding
    \/ InitializeEmbeddings
    \/ \E i \in 1..MaxLookups : FetchWordDone(i)
    \/ \E i \in 1..MaxInits : FetchAdditionalDone(i)

\* The store on its own, beside a dispatcher nobody calls.
StoreInit == Init /\ ~isDev /\ env = "browser"

StoreSpec == StoreInit /\ [][StoreNext]_vars

StoreTypeOK ==
    /\ embeddingsCache.set \in BOOLEAN
    /\ isInitializing \in BOOLEAN
    /\ Len(lookups) <= MaxLookups
    /\ Len(inits) <= MaxInits
    /\ fetchCalls \in 0..Len(inits)
    /\ \A w \in DOMAIN pendingEmbeddings :
          pendingEmbeddings[w] \in 1..Len(lookups)
    /\ \A i \in 1..Len(lookups) :
          /\ lookups[i].pc \in {"awaitFetch", "awaitPending", "done"}
          /\ lookups[i].via \in {"cache", "pending", "synth"}
    /\ \A i \in 1..Len(inits) :
          inits[i].pc \in {"fetching", "done", "returned"}

(***************************************************************************)
(* The Similarity Engine and the Projector: the worker's copy and the      *)
(* in-process fallback                                                     *)
(***************************************************************************)

\* vec.reduce((sum, val) => sum + val * val, 0)
RECURSIVE SumSquares(_)
SumSquares(vec) ==
    IF vec = <<>> THEN 0 ELSE Head(vec) * Head(vec) + SumSquares(Tail(vec))

\* vec1.reduce((sum, val, i) => sum + val * vec2[i], 0), for equal lengths
RECURSIVE DotProduct(_, _)
DotProduct(vec1, vec2) ==
    IF vec1 = <<>> THEN 0
    ELSE Head(vec1) * Head(vec2) + DotProduct(Tail(vec1), Tail(vec2))

\* The number dot / Math.sqrt(sq), sq > 0.
Similarity(dot, sq) == [dot |-> dot, sq |-> sq]

\* A result that is not a number: 0 / 0.
ZeroByZero == Similarity(0, 0)

\* return 0
ZeroSimilarity == Similarity(0, 1)

\* computeSimilarity of the worker script.
workerComputeSimilarity(vec1, vec2) ==
    IF Len(vec1) # Len(vec2) THEN ZeroSimilarity
    ELSE LET dotProduct == DotProduct(vec1, vec2)
             mag1 == SumSquares(vec1)
             mag2 == SumSquares(vec2)
         IN  IF mag1 = 0 \/ mag2 = 0 THEN ZeroSimilarity
             ELSE Similarity(dotProduct, mag1 * mag2)

\* A computeSimilarity that returns the dot product, not divided by the
\* magnitudes.
fallbackComputeSimilarityDotOnly(vec1, vec2) ==
    IF Len(vec1) # Len(vec2) THEN ZeroSimilarity
    ELSE Similarity(DotProduct(vec1, vec2), 1)

\* computeSimilarity of findSimilarWordsFallback.
fallbackComputeSimilarity(vec1, vec2) ==
    IF Len(vec1) # Len(vec2) THEN ZeroSimilarity
    ELSE LET dotProduct == DotProduct(vec1, vec2)
             mag1 == SumSquares(vec1)
             mag2 == SumSquares(vec2)
         IN  IF mag1 = 0 \/ mag2 = 0 THEN ZeroSimilarity
             ELSE Similarity(dotProduct, mag1 * mag2)

\* n * |n|: the order of n / sqrt(sq) is the order of n * |n| / sq.
SignedSquare(n) == IF n >= 0 THEN n * n ELSE -(n * n)

\* a >= b for two similarities.
SimGeq(a, b) == SignedSquare(a.dot) * b.sq >= SignedSquare(b.dot) * a.sq

\* A threshold test that keeps every score that is not negative.
AtLeastZero(sim, threshold) == sim.dot >= 0

\* item.similarity >= threshold
AtLeast(sim, threshold) ==
    SignedSquare(sim.dot) * threshold.den * threshold.den
       >= SignedSquare(threshold.num) * sim.sq

\* Number.isFinite(item.similarity)
IsFinite(sim) == sim.sq # 0

\* A step of an unstable sort: x goes before the items of its own score.
InsertBeforeTies(sorted, x) ==
    LET p == Cardinality({k \in 1..Len(sorted) :
                             ~SimGeq(x.similarity, sorted[k].similarity)})
    IN  SubSeq(sorted, 1, p) \o <<x>> \o SubSeq(sorted, p + 1, Len(sorted))

\* One step of the stable sort: x goes behind every item that is not smaller.
InsertBySimilarity(sorted, x) ==
    LET p == Cardinality({k \in 1..Len(sorted) :
                             SimGeq(sorted[k].similarity, x.similarity)})
    IN  SubSeq(sorted, 1, p) \o <<x>> \o SubSeq(sorted, p + 1, Len(sorted))

\* .sort((a, b) => b.similarity - a.similarity): descending and stable.
RECURSIVE SortBySimilarity(_)
SortBySimilarity(items) ==
    IF items = <<>> THEN <<>>
    ELSE InsertBySimilarity(SortBySimilarity(SubSeq(items, 1, Len(items) - 1)),
                            items[Len(items)])

\* A slice that keeps one item more than the limit.
SliceOneMore(items, limit) ==
    SubSeq(items, 1, IF limit + 1 < Len(items) THEN limit + 1 ELSE Len(items))

\* .slice(0, limit)
Slice(items, limit) ==
    SubSeq(items, 1, IF limit < Len(items) THEN limit ELSE Len(items))

\* findSimilarWords of the worker script.
workerFindSimilarWords(embeddings, wordEmbedding, word, limit, threshold) ==
    LET NotWord(e) == e.key # word
        kept == SelectSeq(embeddings, NotWord)
        items == [i \in 1..Len(kept) |->
                    [word |-> kept[i].key,
                     similarity |-> workerComputeSimilarity(wordEmbedding,
                                                            kept[i].vector)]]
        Passes(item) ==
            AtLeast(item.similarity, threshold) /\ IsFinite(item.similarity)
    IN  Slice(SortBySimilarity(SelectSeq(items, Passes)), limit)

\* A fallback that lacks the key !== word filter.
findSimilarWordsFallbackKeepsWord(embeddings, wordEmbedding, word, limit, threshold) ==
    LET items == [i \in 1..Len(embeddings) |->
                    [word |-> embeddings[i].key,
                     similarity |-> fallbackComputeSimilarity(wordEmbedding,
                                                              embeddings[i].vector)]]
        Passes(item) ==
            AtLeast(item.similarity, threshold) /\ IsFinite(item.similarity)
    IN  Slice(SortBySimilarity(SelectSeq(items, Passes)), limit)

\* findSimilarWordsFallback
findSimilarWordsFallback(embeddings, wordEmbedding, word, limit, threshold) ==
    LET NotWord(e) == e.key # word
        kept == SelectSeq(embeddings, NotWord)
        items == [i \in 1..Len(kept) |->
                    [word |-> kept[i].key,
                     similarity |-> fallbackComputeSimilarity(wordEmbedding,
                                                              kept[i].vector)]]
        Passes(item) ==
            AtLeast(item.similarity, threshold) /\ IsFinite(item.similarity)
    IN  Slice(SortBySimilarity(SelectSeq(items, Passes)), limit)

\* computeSimilarity of lib/embeddings.
computeSimilarity(vec1, vec2) ==
    IF Len(vec1) # Len(vec2) THEN ZeroSimilarity
    ELSE LET dotProduct == DotProduct(vec1, vec2)
             mag1 == SumSquares(vec1)
             mag2 == SumSquares(vec2)
         IN  IF mag1 = 0 \/ mag2 = 0 THEN ZeroSimilarity
             ELSE Similarity(dotProduct, mag1 * mag2)

\* The timer callback of findSimilarWords of lib/embeddings: the entries of
\* the cache but the one of key word, scored against wordEmbedding, those of
\* at least the threshold, sorted and sliced.
similarWordsOfCache(cache, wordEmbedding, word, limit, threshold) ==
    LET NotWord(e) == e.key # word
        kept == SelectSeq(cache, NotWord)
        items == [i \in 1..Len(kept) |->
                    [word |-> kept[i].key,
                     similarity |-> computeSimilarity(wordEmbedding,
                                                      kept[i].vector)]]
        Passes(item) == AtLeast(item.similarity, threshold)
    IN  Slice(SortBySimilarity(SelectSeq(items, Passes)), limit)

\* A JavaScript number that is finite, or NaN.
Fin(v) == [nan |-> FALSE, v |-> v]
NaN == [nan |-> TRUE, v |-> 0]

\* vector[i], i counted from 0; undefined behaves as NaN in arithmetic.
Index(vector, i) == IF i + 1 <= Len(vector) THEN Fin(vector[i + 1]) ELSE NaN

\* n * c
Times(n, c) == IF n.nan THEN NaN ELSE Fin(n.v * c)

\* a + b
Plus(a, b) == IF a.nan \/ b.nan THEN NaN ELSE Fin(a.v + b.v)

\* n || 0
OrZero(n) == IF n.nan \/ n.v = 0 THEN Fin(0) ELSE n

\* Math.max(-100, Math.min(100, n))
Clamp(n) ==
    IF n.nan THEN NaN
    ELSE Fin(IF n.v > 100 THEN 100 ELSE IF n.v < -100 THEN -100 ELSE n.v)

\* A projectTo2D without the test of the length.
workerProjectTo2DAnyLength(vector) ==
    <<Plus(Times(Index(vector, 0), 100), Times(Index(vector, 2), 30)),
      Plus(Plus(Times(Index(vector, 1), 100), Times(Index(vector, 3), 30)),
           Times(OrZero(Index(vector, 4)), 20))>>

\* projectTo2D of the worker script.
workerProjectTo2D(vector) ==
    IF Len(vector) < 2 THEN <<Fin(0), Fin(0)>>
    ELSE <<Plus(Times(Index(vector, 0), 100), Times(Index(vector, 2), 30)),
           Plus(Plus(Times(Index(vector, 1), 100), Times(Index(vector, 3), 30)),
                Times(OrZero(Index(vector, 4)), 20))>>

\* projectTo2D of projectEmbeddingsFallback.
fallbackProjectTo2D(vector) ==
    IF Len(vector) < 2 THEN <<Fin(0), Fin(0)>>
    ELSE <<Clamp(Plus(Times(Index(vector, 0), 100), Times(Index(vector, 1), 50))),
           Clamp(Plus(Plus(Times(Index(vector, 2), 30), Times(Index(vector, 3), 40)),
                      Times(Index(vector, 4), 60)))>>

\* projectTo2D of the embeddings view.
viewProjectTo2D(vector) ==
    IF Len(vector) < 2 THEN <<Fin(0), Fin(0)>>
    ELSE <<Plus(Times(Index(vector, 0), 100), Times(Index(vector, 2), 30)),
           Plus(Plus(Times(Index(vector, 1), 100), Times(Index(vector, 3), 30)),
                Times(OrZero(Index(vector, 4)), 20))>>

\* The keys of Object.entries(embeddings).
KeysOf(embeddings) == {embeddings[i].key : i \in 1..Len(embeddings)}

\* The vector of the entry of key w.
VectorOf(embeddings, w) ==
    LET i == CHOOSE i \in 1..Len(embeddings) : embeddings[i].key = w
    IN  embeddings[i].vector

\* findSimilarWords(word, limit, threshold) of lib/embeddings, run to its
\* end with no other call in between, the cache being the object of the
\* entries given: getWordEmbedding returns the entry of the normalized word,
\* or synthesizes a vector and caches it; nothing is listed for null.
findSimilarWords(cache, word, limit, threshold) ==
    LET normalizedWord == Normalize(word)
        hit == normalizedWord \in KeysOf(cache)
        wordEmbedding ==
            IF hit THEN Found(VectorOf(cache, normalizedWord))
            ELSE fetchWordEmbedding(normalizedWord)
        cacheThen ==
            IF hit \/ ~wordEmbedding.found THEN cache
            ELSE Append(cache, [key |-> normalizedWord,
                                vector |-> wordEmbedding.vec])
    IN  IF ~wordEmbedding.found THEN <<>>
        ELSE similarWordsOfCache(cacheThen, wordEmbedding.vec, word,
                                 limit, threshold)

\* batchProjectTo2D of the worker script: points[word] = { x, y } for
\* every entry.
workerBatchProjectTo2D(embeddings) ==
    [w \in KeysOf(embeddings) |->
       LET xy == workerProjectTo2D(VectorOf(embeddings, w))
       IN  [x |-> xy[1], y |-> xy[2]]]

\* projectEmbeddingsFallback: points[word] = { x, y } for every entry.
projectEmbeddingsFallback(embeddings) ==
    [w \in KeysOf(embeddings) |->
       LET xy == fallbackProjectTo2D(VectorOf(embeddings, w))
       IN  [x |-> xy[1], y |-> xy[2]]]

\* The loop of the embeddings view over Object.entries(embeddings):
\* points[word] = { x, y }.
viewProjectEmbeddings(embeddings) ==
    [w \in KeysOf(embeddings) |->
       LET xy == viewProjectTo2D(VectorOf(embeddings, w))
       IN  [x |-> xy[1], y |-> xy[2]]]

\* The payload of findSimilarWordsWithWorker(embeddings, wordEmbedding,
\* word, limit, threshold).
SimilarWordsRequest(vs, q, w, l, t) ==
    [type |-> "FIND_SIMILAR_WORDS", embeddings |-> Entries(vs),
     wordEmbedding |-> q, word |-> w, limit |-> l, threshold |-> t]

\* The payload of projectEmbeddingsWithWorker(embeddings).
ProjectionRequest(vs) ==
    [type |-> "BATCH_PROJECT_TO_2D", embeddings |-> Entries(vs),
     wordEmbedding |-> <<>>, word |-> "", limit |-> 0,
     threshold |-> [num |-> 0, den |-> 1]]

\* findSimilarWordsWithWorker(ExampleTable, <row of dog>, "dog", 2, 0.5)
ExampleRequest ==
    [type |-> "FIND_SIMILAR_WORDS", embeddings |-> ExampleTable,
     wordEmbedding |-> Row_dog, word |-> "dog", limit |-> 2,
     threshold |-> [num |-> 1, den |-> 2]]

\* findSimilarTokens(word) of the embeddings view for a word that
\* normalizes to "the", once the cache is initialized: getWordEmbedding
\* returns the static row of "the", and the view asks for the 6 most similar
\* words of the static table.
ViewRequest(word) ==
    [type |-> "FIND_SIMILAR_WORDS", embeddings |-> StaticRows,
     wordEmbedding |-> Tenths(getStaticWordEmbeddings[W_the]), word |-> word,
     limit |-> 6, threshold |-> ViewThreshold(word)]

\* A call findSimilarWords(w, l, t) of lib/embeddings over the seeded cache.
StoreSimilarWordsRequest(w, l, t) ==
    [type |-> "findSimilarWords", embeddings |-> SeededCache,
     wordEmbedding |-> <<>>, word |-> w, limit |-> l, threshold |-> t]

\* findSimilarWordsWithWorker / projectEmbeddingsWithWorker with no worker
\* available: the request is answered by the fallback of its type.
FallbackAnswers ==
    /\ request.type \in Kinds
    /\ ~fallbackAnswer.done
    /\ fallbackAnswer' =
          IF request.type = "FIND_SIMILAR_WORDS"
          THEN SimilarWordsAnswer(
                  findSimilarWordsFallback(request.embeddings, request.wordEmbedding,
                                           request.word, request.limit,
                                           request.threshold))
          ELSE PointsAnswer(projectEmbeddingsFallback(request.embeddings))
    /\ UNCHANGED <<request, workerAnswer, directAnswer, workerVars, storeVars>>

\* self.onmessage of the worker script computes the answer to the request.
WorkerAnswers ==
    /\ request.type \in Kinds
    /\ ~workerAnswer.done
    /\ workerAnswer' =
          IF request.type = "FIND_SIMILAR_WORDS"
          THEN SimilarWordsAnswer(
                  workerFindSimilarWords(request.embeddings, request.wordEmbedding,
                                         request.word, request.limit,
                                         request.threshold))
          ELSE PointsAnswer(workerBatchProjectTo2D(request.embeddings))
    /\ UNCHANGED <<request, fallbackAnswer, directAnswer, workerVars, storeVars>>

\* The main thread computes by itself: the similar words as the timer
\* callback of findSimilarWords of lib/embeddings computes them over the
\* cache, or as a whole call of findSimilarWords does, the points as the
\* embeddings view does when the worker's projection failed.
DirectAnswers ==
    /\ request.type # "NONE"
    /\ ~directAnswer.done
    /\ directAnswer' =
          IF request.type = "FIND_SIMILAR_WORDS"
          THEN SimilarWordsAnswer(
                  similarWordsOfCache(request.embeddings, request.wordEmbedding,
                                      request.word, request.limit,
                                      request.threshold))
          ELSE IF request.type = "findSimilarWords"
          THEN SimilarWordsAnswer(
                  findSimilarWords(request.embeddings, request.word,
                                   request.limit, request.threshold))
          ELSE PointsAnswer(viewProjectEmbeddings(request.embeddings))
    /\ UNCHANGED <<request, fallbackAnswer, workerAnswer, workerVars, storeVars>>

EngineNext ==
    \/ FallbackAnswers
    \/ WorkerAnswers
    \/ DirectAnswers

\* One request, in a runtime without window: no worker is available.
EngineInit ==
    /\ isDev = FALSE
    /\ env = "ssr"
    /\ observing = FALSE
    /\ DispatcherStart
    /\ StoreStart
    /\ \/ \E vs \in Tables(SimVectors), q \in QueryVectors, w \in QueryWords,
               l \in Limits, t \in Thresholds :
             request = SimilarWordsRequest(vs, q, w, l, t)
       \/ \E vs \in Tables(ProjVectors) : request = ProjectionRequest(vs)
       \/ request = ExampleRequest
       \/ \E w \in TheWords : request = ViewRequest(w)
       \/ \E w \in SimilarWordsInputs, l \in Limits, t \in Thresholds :
             request = StoreSimilarWordsRequest(w, l, t)
       \/ \E vs \in Tables(EdgeVectors), q \in EdgeQueryVectors,
               l \in Limits, t \in Thresholds :
             request = SimilarWordsRequest(vs, q, "q", l, t)
    /\ fallbackAnswer = NoAnswer
    /\ workerAnswer = NoAnswer
    /\ directAnswer = NoAnswer

EngineSpec == EngineInit /\ [][EngineNext]_vars

(***************************************************************************)
(* Properties                                                              *)
(***************************************************************************)

\* Call i is a sendWorkerMessage call of one of the two operation kinds.
IsRequest(i) == calls[i].op = "send" /\ calls[i].type \in Kinds

\* Some initEmbeddingsWorker promise has been rejected: the environment
\* check failed, createWorker returned null, the 2 s readiness deadline
\* expired or the worker raised onerror.
Degraded == \E i \in 1..Len(calls) : calls[i].initPromise = "rejected"

ResultTypes == {"SIMILAR_WORDS_RESULT", "PROJECTION_RESULT"}

\* This step is the main thread taking a result message of the worker.
TakesResult ==
    /\ fromWorker # <<>>
    /\ Head(fromWorker).type \in ResultTypes
    /\ fromWorker' = Tail(fromWorker)

\* C1: every sendWorkerMessage call of kind FIND_SIMILAR_WORDS or
\* BATCH_PROJECT_TO_2D is never rejected and is eventually resolved with a
\* result (of the worker or of the fallback), whatever the worker does and
\* whatever other calls are in flight.
C1_AlwaysResolves ==
    /\ [](\A i \in 1..Len(calls) : IsRequest(i) => calls[i].promise # "rejected")
    /\ \A i \in 1..MaxCalls :
          []((i <= Len(calls) /\ IsRequest(i))
                => <>(/\ i <= Len(calls)
                      /\ calls[i].promise = "resolved"
                      /\ calls[i].value.via \in {"fallback", "worker"}))

\* A request that was queued before readiness, re-dispatched when
\* WORKER_READY was processed, and resolved through its re-dispatched call.
C1_Witness ==
    \E i \in 1..Len(calls) :
        /\ IsRequest(i)
        /\ calls[i].parent # 0
        /\ calls[i].timer = "fired"
        /\ calls[i].promise = "resolved"
        /\ calls[calls[i].parent].timer = "cleared"
        /\ calls[calls[i].parent].promise = "resolved"

\* C2: when the main thread takes the worker's response to a forwarded
\* request while the dispatcher is ready and the request's 5 s timer is still
\* armed, the request's promise is resolved with the payload of that response
\* and the timer is cleared.
C2_ResponseResolvesRequest ==
    [][(/\ TakesResult
        /\ workerReady
        /\ calls[Head(fromWorker).req].timer = "armed"
        /\ calls[Head(fromWorker).req].promise = "pending")
       => (/\ calls'[Head(fromWorker).req].promise = "resolved"
           /\ calls'[Head(fromWorker).req].value = Head(fromWorker).payload
           /\ calls'[Head(fromWorker).req].timer = "cleared")]_vars

\* C3: every request message posted to the worker whose promise is still
\* pending has an entry in pendingMessages under its response tag, and its
\* 5 s timer is armed.
C3_PostedRequestsHaveEntry ==
    \A k \in 1..Len(posted) :
        (posted[k].type \in Kinds /\ calls[posted[k].req].promise = "pending")
        => /\ \E j \in 1..Len(pendingMessages) :
                 /\ pendingMessages[j].call = posted[k].req
                 /\ pendingMessages[j].cb = "response"
                 /\ pendingMessages[j].type = ResponseType(posted[k].type)
           /\ calls[posted[k].req].timer = "armed"

\* C4: pendingMessages never holds the entry of a request whose promise is
\* already settled.
C4_NoSettledEntry ==
    \A j \in 1..Len(pendingMessages) :
        pendingMessages[j].cb # "init"
        => calls[pendingMessages[j].call].promise = "pending"

\* The forwarded requests of the kind a result tag answers that are still
\* pending.
PendingOfResult(tag) ==
    {i \in 1..Len(calls) :
        /\ IsRequest(i)
        /\ WorkerResponseType(calls[i].type) = tag
        /\ calls[i].pc = "sent"
        /\ calls[i].promise = "pending"}

Oldest(S) == CHOOSE i \in S : \A j \in S : i <= j

\* C5: with several requests of one kind pending, a worker response of that
\* kind resolves the oldest of them, with its payload.
C5_FirstMatchWins ==
    [][(/\ TakesResult
        /\ Cardinality(PendingOfResult(Head(fromWorker).type)) >= 2)
       => (/\ calls'[Oldest(PendingOfResult(Head(fromWorker).type))].promise = "resolved"
           /\ calls'[Oldest(PendingOfResult(Head(fromWorker).type))].value
                 = Head(fromWorker).payload)]_vars

\* The requests waiting in pendingMessages for readiness, not yet settled.
QueuedPending ==
    {i \in 1..Len(calls) :
        /\ IsRequest(i)
        /\ calls[i].pc = "queued"
        /\ calls[i].promise = "pending"
        /\ \E j \in 1..Len(pendingMessages) :
              pendingMessages[j].call = i /\ pendingMessages[j].cb = "queued"}

\* C6: a queued request is flushed in the step that makes the dispatcher
\* ready (it is posted to the worker) and in the step in which worker
\* initialization times out or fails (it is resolved by the fallback).
C6_QueuedFlushed ==
    [][\A i \in QueuedPending :
          /\ (~workerReady /\ workerReady')
                => \E k \in 1..Len(posted') :
                      /\ posted'[k].type = calls[i].type
                      /\ posted'[k].payload = calls[i].payload
          /\ (~Degraded /\ Degraded')
                => /\ calls'[i].promise = "resolved"
                   /\ calls'[i].value = FallbackResult(calls[i].type, calls[i].payload)]_vars

\* C7: once worker initialization has failed or timed out, an exported
\* sendWorkerMessage call is resolved by the fallback within the call.
C7_DegradedResolvesAtOnce ==
    [][(/\ Degraded
        /\ Len(calls') = Len(calls) + 1
        /\ calls'[Len(calls')].op = "send"
        /\ calls'[Len(calls')].parent = 0)
       => (/\ calls'[Len(calls')].promise = "resolved"
           /\ calls'[Len(calls')].value.via = "fallback"
           /\ calls'[Len(calls')].timer # "armed")]_vars

\* C8: once worker initialization has failed or timed out, workerReady never
\* becomes true and nothing more is posted to the worker.
C8_DegradedAbsorbing ==
    [][Degraded => (~workerReady' /\ posted' = posted)]_vars

\* C9: once createWorker has returned null or an initialization has been
\* rejected, createWorker is not invoked again.
C9_CreateWorkerOnce ==
    [][Degraded => createWorkerCalls' = createWorkerCalls]_vars

\* C10: a request is posted to the worker only when workerReady is true,
\* which it becomes only after the worker has handled INIT and answered
\* WORKER_READY; until then posted holds the INIT message alone.
C10_RequestsOnlyWhenReady ==
    /\ (\E k \in 1..Len(posted) : posted[k].type # "INIT") => workerReady
    /\ workerReady => (embeddingsWorker /\ workerNext >= 2)
    /\ ~workerReady => Len(posted) <= 1

\* A forwarded request of a call that went through the queue.
C10_Witness ==
    /\ workerReady
    /\ \E k \in 1..Len(posted) :
          /\ posted[k].type \in Kinds
          /\ calls[posted[k].req].parent # 0

(***************************************************************************)
(* Properties of the Embedding Store                                       *)
(***************************************************************************)

\* Call i of getWordEmbedding has returned and its promise has settled.
Done(i) == lookups[i].pc = "done"

\* The word has a row in the static table.
IsStatic(w) == w \in DOMAIN getStaticWordEmbeddings

\* The word has a row in neither table: the words synthesis is for.
IsUnknown(w) ==
    w \notin DOMAIN getStaticWordEmbeddings \cup DOMAIN fetchAdditionalEmbeddings

\* The argument is the empty string or whitespace only.
IsBlank(word) == \A k \in 1..Len(word) : word[k] = " "

\* C14: the effective table is append-only: a word that maps to a vector
\* maps to the same vector in every later state, through the supplemental
\* merge and through the caching of synthesized vectors.
C14_AppendOnly ==
    [][\A w \in DOMAIN embeddingsCache.entries :
          /\ w \in DOMAIN embeddingsCache'.entries
          /\ embeddingsCache'.entries[w] = embeddingsCache.entries[w]]_vars

\* C15: getWordEmbedding of a word of the static table returns the static
\* vector of that word, in every interleaving of initializeEmbeddings and
\* getWordEmbedding calls.
C15_StaticNeverSynthesized ==
    \A i \in 1..Len(lookups) :
       (Done(i) /\ IsStatic(lookups[i].norm))
          => lookups[i].result = Found(getStaticWordEmbeddings[lookups[i].norm])

\* C16: at most one fetchWordEmbedding is in flight per normalized word,
\* and a getWordEmbedding call for a word the table does not hold, made
\* while another call for the same normalized word is in flight, returns
\* the same vector as that call.
C16_OneSynthesisPerWord ==
    /\ \A i, j \in 1..Len(lookups) :
          (/\ lookups[i].pc = "awaitFetch"
           /\ lookups[j].pc = "awaitFetch"
           /\ lookups[i].norm = lookups[j].norm) => i = j
    /\ \A j \in 1..Len(lookups) : \A i \in lookups[j].open :
          (Done(i) /\ Done(j) /\ lookups[j].via # "cache")
             => lookups[i].result = lookups[j].result

\* Two calls for "zq", the second made while the first was in flight, have
\* both returned.
C16_Witness ==
    \E j \in 1..Len(lookups) : \E i \in lookups[j].open :
       /\ Done(i) /\ Done(j)
       /\ lookups[j].norm = W_zq
       /\ lookups[j].via = "pending"
       /\ lookups[j].result.found

\* C17: when a getWordEmbedding call for a non-empty word that was absent
\* from the table completes, the table holds the word with the returned
\* vector, whether or not initializeEmbeddings was called first.
C17_SynthesizedIsCached ==
    [][\A i \in 1..Len(lookups) :
          (/\ ~Done(i)
           /\ lookups'[i].pc = "done"
           /\ lookups[i].norm # <<>>)
             => /\ embeddingsCache'.set
                /\ lookups[i].norm \in DOMAIN embeddingsCache'.entries
                /\ embeddingsCache'.entries[lookups[i].norm] = lookups'[i].result.vec]_vars

\* C18: fetchAdditionalEmbeddings is started at most once, and an
\* initializeEmbeddings call made while the initialization is in progress or
\* after it has completed changes nothing of the store.
C18_InitializeOnce ==
    [][/\ fetchCalls' <= 1
       /\ (/\ Len(inits') = Len(inits) + 1
           /\ (isInitializing \/ embeddingsCache.set))
             => UNCHANGED <<embeddingsCache, isInitializing, fetchCalls,
                            pendingEmbeddings, lookups, timers>>]_vars

\* One initializeEmbeddings call has completed and another has returned at
\* its guard.
C18_Witness ==
    /\ fetchCalls = 1
    /\ \E i, j \in 1..Len(inits) :
          inits[i].pc = "done" /\ inits[j].pc = "returned"

\* C19: for a non-empty word of neither table, every getWordEmbedding call
\* returns the same vector, computed from the characters of the word alone,
\* whether it is synthesized or served from the cache.
C19_SynthesisDeterministic ==
    \A i, j \in 1..Len(lookups) :
       (/\ Done(i) /\ Done(j)
        /\ lookups[i].norm = lookups[j].norm
        /\ lookups[i].norm # <<>>
        /\ IsUnknown(lookups[i].norm))
          => /\ lookups[i].result = Found(Synthesized(Seed(lookups[i].norm)))
             /\ lookups[i].result = lookups[j].result

\* "zq" was synthesized by one call and served from the cache to a later
\* one, with an initializeEmbeddings call in between or before.
C19_Witness ==
    \E i, j \in 1..Len(lookups) :
       /\ i < j
       /\ Done(i) /\ Done(j)
       /\ lookups[i].norm = W_zq /\ lookups[j].norm = W_zq
       /\ lookups[i].via = "synth"
       /\ lookups[j].via = "cache"

ErrorReported ==
    \/ OnError
    \/ OnMessage /\ Head(fromWorker).type = "WORKER_ERROR"

\* C11: a request that is pending when the worker reports an error (a
\* WORKER_ERROR message is taken, or onerror fires) is not rejected: it is
\* settled, and when it settles it is resolved with the fallback result, as
\* on expiry of its deadline.
C11_ErrorFallsBack ==
    /\ [][\A i \in PendingCalls :
             (IsRequest(i) /\ (i \in errored \/ ErrorReported)) =>
                /\ calls'[i].promise # "rejected"
                /\ calls'[i].promise = "resolved"
                     => calls'[i].value = FallbackResult(calls[i].type, calls[i].payload)]_vars
    /\ (errored # {}) ~> (errored = {})

\* The worker has reported an error to a pending request that it had been
\* sent, and to one that was still queued.
C11_Witness ==
    \E i, j \in errored :
       /\ IsRequest(i) /\ calls[i].pc = "sent"
       /\ IsRequest(j) /\ calls[j].pc = "queued"

(***************************************************************************)
(* Properties of the fallback against the worker's copy                    *)
(***************************************************************************)

\* Both copies have answered the request.
BothAnswered == fallbackAnswer.done /\ workerAnswer.done

\* C12: with no worker available, findSimilarWordsWithWorker returns for its
\* five arguments the list the worker's findSimilarWords returns for them:
\* the same words with the same scores in the same order.
C12_FallbackSimilarWordsEqual ==
    (request.type = "FIND_SIMILAR_WORDS" /\ BothAnswered)
       => fallbackAnswer.similarWords = workerAnswer.similarWords

\* Both have answered a request whose table holds the query word and whose
\* answer lists two words of equal score behind the threshold and the limit.
C12_Witness ==
    /\ request.type = "FIND_SIMILAR_WORDS"
    /\ BothAnswered
    /\ request.word = "a"
    /\ Len(request.embeddings) = MaxWords
    /\ Len(fallbackAnswer.similarWords) = 2
    /\ SimGeq(fallbackAnswer.similarWords[2].similarity,
              fallbackAnswer.similarWords[1].similarity)

\* C13: projectEmbeddingsFallback maps every word of every embeddings table
\* to the point the worker's batchProjectTo2D maps it to.
C13_FallbackProjectionEqual ==
    (request.type = "BATCH_PROJECT_TO_2D" /\ BothAnswered)
       => fallbackAnswer.points = workerAnswer.points

(***************************************************************************)
(* Properties of the lists of similar words                                *)
(***************************************************************************)

\* The words of a list of similar words, in its order.
WordsOf(l) == [i \in 1..Len(l) |-> l[i].word]

\* Every score of the list is at least the threshold t.
AllAtLeast(l, t) ==
    \A i \in 1..Len(l) :
       SignedSquare(l[i].similarity.dot) * t.den * t.den
          >= SignedSquare(t.num) * l[i].similarity.sq

\* Word u is listed, and before word v if v is listed too.
RanksAbove(l, u, v) ==
    \E i \in 1..Len(l) :
       /\ l[i].word = u
       /\ \A j \in 1..Len(l) : l[j].word = v => i < j

\* The answers given so far to the request.
Answers ==
    {a \in {fallbackAnswer, workerAnswer, directAnswer} : a.done}

\* C21 as stated: for the table of dog, cat and car, the similar words of
\* the vector of dog, without "dog", with limit 2 and threshold 0.5, rank cat
\* above car, are at most 2 and have scores of at least 0.5.
C21_CatAboveCar ==
    request = ExampleRequest =>
       \A a \in Answers :
          /\ RanksAbove(a.similarWords, "cat", "car")
          /\ Len(a.similarWords) <= 2
          /\ AllAtLeast(a.similarWords, request.threshold)

\* C21, amended: for that table and those arguments the list is car, then
\* cat (cosines 0.875 and 0.736), and both scores are at least 0.5.
C21_CarAboveCat ==
    request = ExampleRequest =>
       \A a \in Answers :
          /\ WordsOf(a.similarWords) = <<"car", "cat">>
          /\ AllAtLeast(a.similarWords, request.threshold)

\* The three copies have answered the example.
C21_Witness ==
    /\ request = ExampleRequest
    /\ fallbackAnswer.done
    /\ workerAnswer.done
    /\ directAnswer.done

\* The request asks for similar words.
IsSimilarWordsRequest == request.type = "FIND_SIMILAR_WORDS"

\* The cosine of the query vector and the vector of entry i of the table.
ScoreOf(i) ==
    computeSimilarity(request.wordEmbedding, request.embeddings[i].vector)

\* Similarity a is strictly greater than similarity b.
Greater(a, b) == SignedSquare(a.dot) * b.sq > SignedSquare(b.dot) * a.sq

\* The entries of the table that are not the excluded word and score at
\* least the threshold.
Candidates ==
    {i \in 1..Len(request.embeddings) :
        /\ request.embeddings[i].key # request.word
        /\ SignedSquare(ScoreOf(i).dot) * request.threshold.den * request.threshold.den
              >= SignedSquare(request.threshold.num) * ScoreOf(i).sq}

\* The words of the list l, as a set.
Listed(l) == {l[k].word : k \in 1..Len(l)}

\* C22: with limit N the list has at most N entries, none for N = 0; when
\* more than N candidates pass the threshold it has N entries, and no
\* candidate left out has a strictly higher score than a listed one.
C22_LimitKeepsTheBest ==
    IsSimilarWordsRequest =>
       \A a \in Answers :
          /\ Len(a.similarWords) <= request.limit
          /\ Cardinality(Candidates) > request.limit
                => Len(a.similarWords) = request.limit
          /\ \A i \in Candidates :
                request.embeddings[i].key \notin Listed(a.similarWords)
                   => \A k \in 1..Len(a.similarWords) :
                         ~Greater(ScoreOf(i), a.similarWords[k].similarity)

\* The three copies have answered a request with more candidates than the
\* limit, which is not 0, and a candidate left out scores strictly less than
\* a listed one.
C22_Witness ==
    /\ IsSimilarWordsRequest
    /\ Cardinality(Answers) = 1
    /\ fallbackAnswer.done /\ workerAnswer.done /\ directAnswer.done
    /\ request.limit > 0
    /\ Cardinality(Candidates) > request.limit
    /\ \E i \in Candidates :
          /\ request.embeddings[i].key \notin Listed(directAnswer.similarWords)
          /\ Greater(directAnswer.similarWords[1].similarity, ScoreOf(i))

\* C23: every listed entry has a score of at least the threshold, and the
\* excluded word is never listed.
C23_ThresholdAndExclusion ==
    IsSimilarWordsRequest =>
       \A a \in Answers :
          /\ AllAtLeast(a.similarWords, request.threshold)
          /\ request.word \notin Listed(a.similarWords)

\* The three copies have answered with a non-empty list a request whose
\* table holds the excluded word and an entry scoring below the threshold.
C23_Witness ==
    /\ IsSimilarWordsRequest
    /\ fallbackAnswer.done /\ workerAnswer.done /\ directAnswer.done
    /\ request.word \in KeysOf(request.embeddings)
    /\ fallbackAnswer.similarWords # <<>>
    /\ \E i \in 1..Len(request.embeddings) :
          /\ request.embeddings[i].key # request.word
          /\ i \notin Candidates

\* The place of word w in the iteration order of the table.
PlaceOf(w) ==
    CHOOSE i \in 1..Len(request.embeddings) : request.embeddings[i].key = w

\* C24: the list is sorted by non-increasing score, and entries of exactly
\* equal score are in the iteration order of the table.
C24_SortedAndStable ==
    IsSimilarWordsRequest =>
       \A a \in Answers :
          \A i, j \in 1..Len(a.similarWords) :
             i < j =>
                /\ ~Greater(a.similarWords[j].similarity,
                             a.similarWords[i].similarity)
                /\ ~Greater(a.similarWords[i].similarity,
                             a.similarWords[j].similarity)
                      => PlaceOf(a.similarWords[i].word)
                            < PlaceOf(a.similarWords[j].word)

\* The three copies have answered with a list of three entries: the first
\* comes last in the table, the other two have the same score.
C24_Witness ==
    /\ IsSimilarWordsRequest
    /\ fallbackAnswer.done /\ workerAnswer.done /\ directAnswer.done
    /\ Len(directAnswer.similarWords) = 3
    /\ PlaceOf(directAnswer.similarWords[1].word) = 3
    /\ Greater(directAnswer.similarWords[1].similarity,
               directAnswer.similarWords[2].similarity)
    /\ ~Greater(directAnswer.similarWords[2].similarity,
                directAnswer.similarWords[3].similarity)

\* One of the vectors is empty, their lengths differ, or one of them has
\* magnitude zero.
Degenerate(vec1, vec2) ==
    \/ Len(vec1) = 0
    \/ Len(vec2) = 0
    \/ Len(vec1) # Len(vec2)
    \/ SumSquares(vec1) = 0
    \/ SumSquares(vec2) = 0

\* The similarity is the number 0.
IsZero(sim) == sim.dot = 0 /\ sim.sq > 0

\* The number of candidates the sort puts before entry i: those of a
\* higher score, and those of the same score earlier in the table.
Rank(i) ==
    Cardinality({j \in Candidates :
                    \/ Greater(ScoreOf(j), ScoreOf(i))
                    \/ ~Greater(ScoreOf(i), ScoreOf(j)) /\ j < i})

\* C25: computeSimilarity is 0 when a vector is empty, the lengths differ or
\* a magnitude is zero; such an entry of the table is not skipped: it is
\* scored 0, and it is listed, with score 0, exactly when the threshold is at
\* most 0 and fewer entries than the limit are sorted before it.
C25_DegenerateScoresZero ==
    IsSimilarWordsRequest =>
       \A i \in 1..Len(request.embeddings) :
          LET e == request.embeddings[i]
          IN  Degenerate(request.wordEmbedding, e.vector) =>
                 /\ IsZero(computeSimilarity(request.wordEmbedding, e.vector))
                 /\ IsZero(workerComputeSimilarity(request.wordEmbedding, e.vector))
                 /\ IsZero(fallbackComputeSimilarity(request.wordEmbedding, e.vector))
                 /\ e.key # request.word =>
                       \A a \in Answers :
                          /\ e.key \in Listed(a.similarWords)
                                <=> (request.threshold.num <= 0
                                       /\ Rank(i) < request.limit)
                          /\ \A k \in 1..Len(a.similarWords) :
                                a.similarWords[k].word = e.key
                                   => IsZero(a.similarWords[k].similarity)

\* The three copies have answered with a list that holds, behind an entry
\* of a positive score, an entry of an empty vector and one of a zero vector.
C25_Witness ==
    /\ IsSimilarWordsRequest
    /\ fallbackAnswer.done /\ workerAnswer.done /\ directAnswer.done
    /\ Len(fallbackAnswer.similarWords) = 3
    /\ fallbackAnswer.similarWords[1].similarity.dot > 0
    /\ \E i, j \in 1..Len(request.embeddings) :
          /\ request.embeddings[i].vector = <<>>
          /\ request.embeddings[j].vector = <<0, 0>>
          /\ {request.embeddings[i].key, request.embeddings[j].key}
                \subseteq Listed(fallbackAnswer.similarWords)

(***************************************************************************)
(* Properties of the projections                                           *)
(***************************************************************************)

\* The request asks for the points of a table.
IsProjectionRequest == request.type = "BATCH_PROJECT_TO_2D"

\* Both coordinates of the point are numbers.
WellDefined(pt) == ~pt.x.nan /\ ~pt.y.nan

\* The point (0, 0).
Origin == [x |-> Fin(0), y |-> Fin(0)]

\* C26: whatever the length of a vector, in particular 2, 3 and 4, each
\* projector gives it a point whose coordinates are both numbers, never NaN.
C26_NoUndefinedCoordinate ==
    IsProjectionRequest =>
       \A a \in Answers :
          \A w \in DOMAIN a.points : WellDefined(a.points[w])

\* C27: each projector gives a vector of length 0 or 1 the point (0, 0),
\* and the keys of the mapping of a batch projection are the keys of the
\* table.
C27_ShortVectorsAndKeys ==
    IsProjectionRequest =>
       \A a \in Answers :
          /\ DOMAIN a.points = KeysOf(request.embeddings)
          /\ \A i \in 1..Len(request.embeddings) :
                Len(request.embeddings[i].vector) < 2
                   => a.points[request.embeddings[i].key] = Origin

\* The three projectors have answered for a table that holds the empty
\* vector, a vector of length 1 and a vector projected away from (0, 0).
C27_Witness ==
    /\ IsProjectionRequest
    /\ fallbackAnswer.done /\ workerAnswer.done /\ directAnswer.done
    /\ \E i, j, k \in 1..Len(request.embeddings) :
          /\ request.embeddings[i].vector = <<>>
          /\ request.embeddings[j].vector = <<1>>
          /\ workerAnswer.points[request.embeddings[k].key] # Origin
          /\ fallbackAnswer.points[request.embeddings[k].key] # Origin

\* C30: selecting "the" or "The" in the embeddings view yields related words:
\* the list computed over the static table, with the threshold 0.05, for the
\* vector getWordEmbedding returns for "the" is not empty.
C30_TheHasSimilarWords ==
    (\E w \in TheWords : request = ViewRequest(w)) =>
       \A a \in Answers : a.similarWords # <<>>

(***************************************************************************)
(* Properties of the initialization and of findSimilarWords of the store   *)
(***************************************************************************)

\* The promise of initializeEmbeddings call i has resolved.
InitResolved(i) == inits[i].pc \in {"done", "returned"}

\* The cache holds the static entries and the supplemental ones, and no
\* initialization is in progress.
InitComplete ==
    /\ embeddingsCache.set
    /\ ~isInitializing
    /\ DOMAIN getStaticWordEmbeddings \subseteq DOMAIN embeddingsCache.entries
    /\ DOMAIN fetchAdditionalEmbeddings \subseteq DOMAIN embeddingsCache.entries

\* C29: once the promise of an initializeEmbeddings call has resolved, the
\* initialization is complete, for every call, also for one made while the
\* fetch of another call is in progress.
C29_ResolvedMeansInitialized ==
    \A i \in 1..Len(inits) : InitResolved(i) => InitComplete

\* C28: the list findSimilarWords(word, limit, threshold) of lib/embeddings
\* returns never holds the query word: whatever the casing and the blanks
\* around the argument, no listed word is the normalized query word.
C28_QueryWordNotListed ==
    (request.type = "findSimilarWords" /\ directAnswer.done)
       => Normalize(request.word) \notin Listed(directAnswer.similarWords)

====
